---- MODULE Spec2Model ----
(***************************************************************************)
(* A model of the AI project builder: the inference client                 *)
(* (src/ollama_client.py) and the orchestrator (src/main.py).              *)
(*                                                                         *)
(* Text is a sequence of symbols.  A symbol is a string that stands for    *)
(* one character ("bq" the backquote, ":", ".", "-", "/", " ", "\n") or for a run of word *)
(* characters that the regular expressions of the program treat alike      *)
(* ("file", "a", "py", and the Chinese phrases of the program, written in  *)
(* pinyin because the module is ASCII).                                    *)
(***************************************************************************)
EXTENDS Naturals, Sequences, FiniteSets, TLC

-----------------------------------------------------------------------------
(* Symbols and the literal texts of the program *)

NL == "\n"
SP == " "
\* the backquote character
BT == "bq"

\* "```"
FENCE == <<BT, BT, BT>>

\* "```file:"
MARK == <<BT, BT, BT, "file", ":">>

\* The symbols that are whitespace for str.strip() and for \s.
IsSpace(c) == c \in {SP, NL}

\* The symbols that are neither word characters nor "." nor "-".
Punct == {BT, ":", "fullcolon", "/", SP, NL, "(", ")"}

\* \w : every other symbol is a run of word characters (letters, digits,
\* CJK characters).
IsWord(c) == c \notin Punct /\ c \notin {".", "-"}

\* [\w\-\.]
IsPathChar(c) == IsWord(c) \/ c \in {".", "-"}

\* The three headings of the structure pattern (project structure | file
\* structure | directory structure), in pinyin.
Headings == {"xiangmujiegou", "wenjianjiegou", "mulujiegou"}

\* The four phrases of the plan pattern (next-step plan | next I will | the
\* plan is as follows | my plan is), in pinyin.
PlanPhrases == {"xiayibujihua", "jiexialaiwojiang", "jihuaruxia", "wodejihuashi"}

-----------------------------------------------------------------------------
(* Searching in a text *)

Min(S) == CHOOSE j \in S : \A k \in S : j <= k
Max(S) == CHOOSE j \in S : \A k \in S : j >= k

\* pat occurs in t at position i
IsAt(t, i, pat) ==
    /\ i >= 1
    /\ i + Len(pat) - 1 <= Len(t)
    /\ \A k \in 1..Len(pat) : t[i + k - 1] = pat[k]

\* The first position >= i where pat occurs in t, or 0.
Find(t, i, pat) ==
    LET S == {j \in i..Len(t) : IsAt(t, j, pat)}
    IN  IF S = {} THEN 0 ELSE Min(S)

\* str.strip(): the text without its leading and trailing whitespace.
Strip(t) ==
    LET S == {j \in 1..Len(t) : ~IsSpace(t[j])}
    IN  IF S = {} THEN <<>> ELSE SubSeq(t, Min(S), Max(S))

\* "\n".join / concatenation of a sequence of texts
RECURSIVE Concat(_)
Concat(ts) == IF ts = <<>> THEN <<>> ELSE Head(ts) \o Concat(Tail(ts))

-----------------------------------------------------------------------------
(* The file blocks of a response: re.finditer(file_pattern, response) with *)
(* file_pattern = "```file:(.+?)\n([\s\S]+?)```"                           *)

NoMatch == [ok |-> FALSE]

\* The match of file_pattern that starts at position s, if there is one.
\* (.+?)\n : the path is the text up to the first newline, at least one
\* character; ([\s\S]+?)``` : the content is at least one character, up to
\* the first fence after it.
FileMatchAt(t, s) ==
    IF ~IsAt(t, s, MARK) THEN NoMatch
    ELSE LET p  == s + Len(MARK)
             nl == Find(t, p, <<NL>>)
         IN  IF nl = 0 \/ nl = p THEN NoMatch
             ELSE LET f == Find(t, nl + 2, FENCE)
                  IN  IF f = 0 THEN NoMatch
                      ELSE [ok      |-> TRUE,
                            path    |-> SubSeq(t, p, nl - 1),
                            content |-> SubSeq(t, nl + 1, f - 1),
                            end     |-> f + Len(FENCE)]

\* The matches from position s on, left to right, not overlapping: group(1)
\* and group(2) of each.
RECURSIVE FileMatchesFrom(_, _)
FileMatchesFrom(t, s) ==
    LET m == Find(t, s, MARK)
    IN  IF m = 0 THEN <<>>
        ELSE LET r == FileMatchAt(t, m)
             IN  IF r.ok
                 THEN <<[path |-> r.path, content |-> r.content]>>
                          \o FileMatchesFrom(t, r.end)
                 ELSE FileMatchesFrom(t, m + 1)

FileMatches(t) == FileMatchesFrom(t, 1)

-----------------------------------------------------------------------------
(* The plan notes of a response: re.finditer of                            *)
(* (?:<phrase>)[:<fullcolon>]?\s*(.+?)(?=\n\n|$)                           *)

IsColon(c) == c \in {":", "fullcolon"}

\* (?=\n\n|$) at position e: a blank line follows, or the text ends (or ends
\* with one last newline).
PlanLookahead(t, e) ==
    \/ e = Len(t) + 1
    \/ /\ e <= Len(t)
       /\ t[e] = NL
       /\ (e = Len(t) \/ t[e + 1] = NL)

\* The end of the line that holds position k: the first newline from k on, or
\* the end of the text.
LineEnd(t, k) ==
    LET nl == Find(t, k, <<NL>>) IN IF nl = 0 THEN Len(t) + 1 ELSE nl

\* The first position from c on that is not whitespace, or Len(t) + 1.
SkipSpace(t, c) ==
    LET S == {j \in c..Len(t) : ~IsSpace(t[j])}
    IN  IF S = {} THEN Len(t) + 1 ELSE Min(S)

\* (.+?) can start at k: at least one character that is no newline, and the
\* line's end satisfies the lookahead.
PlanStartOk(t, k) ==
    /\ k <= Len(t)
    /\ t[k] # NL
    /\ PlanLookahead(t, LineEnd(t, k))

\* The match that starts at the phrase at position h.  [:]? and \s* are
\* greedy and give back one character at a time: the capture starts at the
\* last position the whitespace run can end that makes the rest match, else
\* at the colon itself.
PlanMatchAt(t, h) ==
    LET a  == h + 1
        colon == a <= Len(t) /\ IsColon(t[a])
        c  == IF colon THEN a + 1 ELSE a
        w  == SkipSpace(t, c)
        S  == {k \in c..w : PlanStartOk(t, k)}
    IN  IF S # {}
        THEN [ok |-> TRUE, text |-> SubSeq(t, Max(S), LineEnd(t, Max(S)) - 1),
              end |-> LineEnd(t, Max(S))]
        ELSE IF colon /\ PlanStartOk(t, a)
        THEN [ok |-> TRUE, text |-> SubSeq(t, a, LineEnd(t, a) - 1),
              end |-> LineEnd(t, a)]
        ELSE NoMatch

\* group(1) of every match, left to right, from position s on.
RECURSIVE PlanMatchesFrom(_, _)
PlanMatchesFrom(t, s) ==
    LET S == {j \in s..Len(t) : t[j] \in PlanPhrases}
    IN  IF S = {} THEN <<>>
        ELSE LET r == PlanMatchAt(t, Min(S))
             IN  IF r.ok THEN <<r.text>> \o PlanMatchesFrom(t, r.end)
                 ELSE PlanMatchesFrom(t, Min(S) + 1)

PlanMatches(t) == PlanMatchesFrom(t, 1)

-----------------------------------------------------------------------------
(* OllamaClient._extract_planned_files *)

\* re.findall("```file:(.+?)\n", response), from position s on.
RECURSIVE MarkerPathsFrom(_, _)
MarkerPathsFrom(t, s) ==
    LET m == Find(t, s, MARK)
    IN  IF m = 0 THEN <<>>
        ELSE LET p  == m + Len(MARK)
                 nl == Find(t, p, <<NL>>)
             IN  IF nl = 0 \/ nl = p THEN MarkerPathsFrom(t, m + 1)
                 ELSE <<SubSeq(t, p, nl - 1)>> \o MarkerPathsFrom(t, nl + 1)

\* A terminator of the structure pattern, "```" or "\n\n", at position j:
\* its length, or 0.
TermLen(t, j) ==
    IF IsAt(t, j, FENCE) THEN Len(FENCE)
    ELSE IF IsAt(t, j, <<NL, NL>>) THEN 2 ELSE 0

\* re.search(structure_pattern, response) for the heading at position h:
\* (heading)[:]?\s*(?:\n|.)*?(?:```|\n\n).  \s* is greedy: the terminator is
\* the first one after the whitespace run and, when there is none, the last
\* one inside the run.  The end of the match (exclusive), or 0.
StructureEndAt(t, h) ==
    LET a == h + 1
        c == IF a <= Len(t) /\ IsColon(t[a]) THEN a + 1 ELSE a
        w == SkipSpace(t, c)
        T == {j \in c..Len(t) : TermLen(t, j) > 0}
        Tw == {j \in T : j >= w}
    IN  IF T = {} THEN 0
        ELSE IF Tw # {} THEN Min(Tw) + TermLen(t, Min(Tw))
        ELSE Max(T) + TermLen(t, Max(T))

\* group(0) of the first match of the structure pattern, or <<>> when there
\* is no match (a match is never empty).
StructureText(t) ==
    LET H == {h \in 1..Len(t) : t[h] \in Headings /\ StructureEndAt(t, h) > 0}
    IN  IF H = {} THEN <<>>
        ELSE SubSeq(t, Min(H), StructureEndAt(t, Min(H)) - 1)

\* The end of the run of [\w\-\.] symbols that starts at s (s - 1 when t[s]
\* is none).
PathRunEnd(t, s) ==
    LET S == {j \in s..Len(t) : ~IsPathChar(t[j])}
    IN  IF S = {} THEN Len(t) ELSE Min(S) - 1

\* The end of the run of \w symbols that starts at s.
WordRunEnd(t, s) ==
    LET S == {j \in s..Len(t) : ~IsWord(t[j])}
    IN  IF S = {} THEN Len(t) ELSE Min(S) - 1

\* re.findall("[\w\-\.]+\.[\w]+", t) from position s on: the greedy first
\* class gives back to the last "." of its run that a word character follows.
RECURSIVE PathTokensFrom(_, _)
PathTokensFrom(t, s) ==
    IF s > Len(t) THEN <<>>
    ELSE LET r == PathRunEnd(t, s)
             J == {j \in (s + 1)..(r - 1) : t[j] = "." /\ IsWord(t[j + 1])}
         IN  IF J = {} THEN PathTokensFrom(t, s + 1)
             ELSE LET e == WordRunEnd(t, Max(J) + 1)
                  IN  <<SubSeq(t, s, e)>> \o PathTokensFrom(t, e + 1)

\* _extract_planned_files that adds the paths of the structure to the paths
\* of the markers.
_extract_both(response) ==
    LET file_matches == MarkerPathsFrom(response, 1)
    IN  [i \in 1..Len(file_matches) |-> Strip(file_matches[i])]
            \o PathTokensFrom(StructureText(response), 1)

_extract_planned_files(response) ==
    LET file_matches == MarkerPathsFrom(response, 1)
    IN  IF file_matches # <<>>
        THEN [i \in 1..Len(file_matches) |-> Strip(file_matches[i])]
        ELSE PathTokensFrom(StructureText(response), 1)

-----------------------------------------------------------------------------
(* OllamaClient._group_files *)

\* Slice with the bound hi taken as the last position, not the one after it.
SliceInclusive(files, lo, hi) ==
    SubSeq(files, lo + 1, IF hi + 1 < Len(files) THEN hi + 1 ELSE Len(files))

\* files[lo:hi] of Python, positions counted from 0
Slice(files, lo, hi) ==
    SubSeq(files, lo + 1, IF hi < Len(files) THEN hi ELSE Len(files))

\* [files[i:i+group_size] for i in range(i, len(files), group_size)]
RECURSIVE GroupsFrom(_, _, _)
GroupsFrom(files, i, group_size) ==
    IF i >= Len(files) THEN <<>>
    ELSE <<Slice(files, i, i + group_size)>>
             \o GroupsFrom(files, i + group_size, group_size)

_group_files(files, group_size) == GroupsFrom(files, 0, group_size)

-----------------------------------------------------------------------------
(* Paths and the filesystem *)

\* os.path.isabs
IsAbs(p) == Len(p) >= 1 /\ p[1] = "/"

\* os.path.join(a, b)
Join(a, b) ==
    IF IsAbs(b) THEN b
    ELSE IF a = <<>> \/ a[Len(a)] = "/" THEN a \o b
    ELSE a \o <<"/">> \o b

\* os.path.dirname(p): the text before the last "/" ("/" for a path directly
\* under the root directory, "" for a path without a "/").
Dirname(p) ==
    LET S == {j \in 1..Len(p) : p[j] = "/"}
    IN  IF S = {} THEN <<>>
        ELSE IF Max(S) = 1 THEN <<"/">>
        ELSE SubSeq(p, 1, Max(S) - 1)

\* The components of p between its "/" symbols, from position s on.
RECURSIVE Components(_, _)
Components(p, s) ==
    LET S == {j \in s..Len(p) : p[j] = "/"}
    IN  IF S = {} THEN <<SubSeq(p, s, Len(p))>>
        ELSE <<SubSeq(p, s, Min(S) - 1)>> \o Components(p, Min(S) + 1)

\* The components that name something: not "" and not ".".
RECURSIVE NamedComponents(_)
NamedComponents(cs) ==
    IF cs = <<>> THEN <<>>
    ELSE (IF Head(cs) \in {<<>>, <<".">>} THEN <<>> ELSE <<Head(cs)>>)
         \o NamedComponents(Tail(cs))

RECURSIVE JoinComponents(_)
JoinComponents(cs) ==
    IF cs = <<>> THEN <<>>
    ELSE IF Len(cs) = 1 THEN Head(cs)
    ELSE Head(cs) \o <<"/">> \o JoinComponents(Tail(cs))

\* The place in the filesystem that the operating system opens for the path
\* p: "a.py", "./a.py" and ".//a.py" are one place.
\* (q is p, evaluated once.)
Location(p) ==
    CHOOSE l \in {(IF IsAbs(q) THEN <<"/">> ELSE <<>>)
                     \o JoinComponents(NamedComponents(Components(q, 1)))
                  : q \in {p}} : TRUE

\* The directory d and the directories above it.
Ancestors(d) ==
    LET l == Location(d)
    IN  {l} \cup {SubSeq(l, 1, j - 1) : j \in {k \in 2..Len(l) : l[k] = "/"}}

\* os.path.relpath(path, start) for a path below start; a path elsewhere is
\* reached through "..".
Relpath(path, start) ==
    LET l == Location(path)
        from == Location(start)
    IN  IF IsAt(l, 1, from \o <<"/">>)
        THEN SubSeq(l, Len(from) + 2, Len(l))
        ELSE <<"..">> \o l

\* The filesystem: the directories that exist, and the content of every file
\* that exists.
EmptyFs == [dirs |-> {}, files |-> <<>>]

IsFile(f, p) == Location(p) \in DOMAIN f.files
IsDir(f, p) == Location(p) \in f.dirs \/ (Len(p) >= 1 /\ p[Len(p)] = "/")

\* os.makedirs(d, exist_ok=True) cannot succeed: d is empty, or a file is in
\* the way.
MakedirsMustFail(f, d) == d = <<>> \/ \E a \in Ancestors(d) : IsFile(f, a)

Makedirs(f, d) == [f EXCEPT !.dirs = @ \cup Ancestors(d)]

\* open(p, "w") cannot succeed: p names a directory.
OpenMustFail(f, p) == IsDir(f, p)

\* open(p, "r") then f.read(), for a file that exists.
ReadFile(f, p) == f.files[Location(p)]

\* open(p, "w") that leaves a file that exists as it is.
WriteFileOnce(f, p, content) ==
    [f EXCEPT !.files = [q \in DOMAIN f.files \cup {Location(p)} |->
                            IF q \in DOMAIN f.files THEN f.files[q]
                            ELSE content]]

\* open(p, "a"): the content is added to what the file holds.
WriteFileAppend(f, p, content) ==
    [f EXCEPT !.files = [q \in DOMAIN f.files \cup {Location(p)} |->
                            IF q # Location(p) THEN f.files[q]
                            ELSE IF q \in DOMAIN f.files
                            THEN f.files[q] \o content
                            ELSE content]]

\* open(p, "w") then f.write(content): the file holds content, whatever it
\* held.
WriteFile(f, p, content) ==
    [f EXCEPT !.files = [q \in DOMAIN f.files \cup {Location(p)} |->
                            IF q = Location(p) THEN content ELSE f.files[q]]]

\* A set of texts as a sequence, in some fixed order.
RECURSIVE SetToSeq(_)
SetToSeq(S) ==
    IF S = {} THEN <<>>
    ELSE LET x == CHOOSE y \in S : TRUE IN <<x>> \o SetToSeq(S \ {x})

\* ProjectManager.scan_project(root): the files below root.
ScanProject(f, root) ==
    SetToSeq({q \in DOMAIN f.files : IsAt(q, 1, root \o <<"/">>)})

-----------------------------------------------------------------------------
(* Numbers in messages *)

Digits == <<"0", "1", "2", "3", "4", "5", "6", "7", "8", "9">>

\* str(n)
RECURSIVE Decimal(_)
Decimal(n) ==
    IF n < 10 THEN <<Digits[n + 1]>>
    ELSE Decimal(n \div 10) \o <<Digits[(n % 10) + 1]>>

-----------------------------------------------------------------------------
(* OllamaClient.generate: what it returns for each outcome of requests.post *)

\* generate that returns an empty text when the request fails.
GenerateResultBlankOnError(outcome) ==
    IF ~outcome.raised /\ outcome.status = 200 THEN outcome.text ELSE <<>>

\* The return value of generate.  An outcome of the request is
\* [raised, status, text]: an exception with str(e) = text, or a response
\* with a status code and a text (the "response" field of the JSON body for
\* status 200, response.text otherwise).
GenerateResult(outcome) ==
    IF outcome.raised
    THEN <<"shengchengshibai", ":", SP, "qingqiuyichang", ":", SP>>
             \o outcome.text
    ELSE IF outcome.status = 200 THEN outcome.text
    ELSE <<"shengchengshibai", ":", SP, "APIcuowu", ":", SP>>
             \o Decimal(outcome.status) \o <<SP, "-", SP>> \o outcome.text

\* The marker every failure sentinel starts with ("generation failed: ").
FailureMarker == <<"shengchengshibai", ":", SP>>

-----------------------------------------------------------------------------
(* The prompts *)

\* "- " + x for every x of xs, each followed by / joined with a newline
RECURSIVE BulletLines(_, _)
BulletLines(xs, last) ==
    IF xs = <<>> THEN <<>>
    ELSE <<"-", SP>> \o Head(xs)
           \o (IF Len(xs) > 1 \/ last THEN <<NL>> ELSE <<>>)
           \o BulletLines(Tail(xs), last)

\* project_files[:10] as paths relative to the project
PreviewCount == 10

RelPaths(files, root) ==
    [k \in 1..(IF Len(files) < PreviewCount THEN Len(files) ELSE PreviewCount)
        |-> Relpath(files[k], root)]

\* AIProjectBuilder.build_prompt.  The fixed text of each template is one
\* symbol.
build_prompt(requirement, is_new_project, f, root) ==
    IF is_new_project
    THEN <<"TEMPLATE_NEW">> \o requirement \o <<NL>>
    ELSE <<"TEMPLATE_EXISTING">> \o requirement
           \o <<NL, NL, "EXISTING_FILES_HEADING", NL>>
           \o BulletLines(RelPaths(ScanProject(f, root), root), TRUE)
           \o <<NL, "MORE_FILES_NOTE", NL>>

planning_prompt(prompt) == prompt \o <<NL, NL, "SUFFIX_PLANNING">>

\* files_prompt that adds the content of no file.
ExistingContentNone(f, project_path, file_path) == <<>>

\* The text added to files_prompt for one file of the group: the content of
\* the file if it exists and can be read.
ExistingContent(f, project_path, file_path) ==
    LET full_path == IF IsAbs(file_path) THEN file_path
                     ELSE Join(project_path, file_path)
    IN  IF IsFile(f, full_path)
        THEN <<NL, NL, "EXISTING_FILE", SP>> \o file_path
               \o <<SP, "CONTENT", ":", NL>> \o FENCE \o <<NL>>
               \o ReadFile(f, full_path) \o <<NL>> \o FENCE
        ELSE IF IsDir(f, full_path)
        THEN <<NL, NL, "CANNOT_READ", SP>> \o file_path \o <<":", SP, "EISDIR">>
        ELSE <<>>

files_prompt(prompt, file_group, f, project_path) ==
    prompt \o <<NL, NL, "SUFFIX_IMPLEMENT_FILES", ":", NL>>
           \o BulletLines(file_group, FALSE)
           \o Concat([k \in 1..Len(file_group) |->
                         ExistingContent(f, project_path, file_group[k])])

implementation_prompt(prompt) == prompt \o <<NL, NL, "SUFFIX_CORE">>
followup_prompt(prompt) == prompt \o <<NL, NL, "SUFFIX_FOLLOWUP">>
finalization_prompt(prompt) == prompt \o <<NL, NL, "SUFFIX_FINAL">>

-----------------------------------------------------------------------------
(* The events put on the message queue *)

MsgFolderSelected(folder) == <<"FOLDER_SELECTED", ":", SP>> \o folder
MsgSettingsUpdated(api_url, model_name) ==
    <<"SETTINGS_UPDATED", SP, "-", SP, "API", ":", SP, api_url, ",", SP,
      "MODEL", ":", SP, model_name>>
MsgNoFolder == <<"SELECT_FOLDER_FIRST">>
MsgNoRequirement == <<"ENTER_REQUIREMENT">>
MsgStart == <<"START_PROCESSING", "...">>
MsgCreating == <<"CREATING_PROJECT", "...">>
MsgAnalysing == <<"ANALYSING_PROJECT", "...">>
MsgFound(n) == <<"FOUND", SP>> \o Decimal(n) \o <<SP, "FILES">>
MsgGenerating == <<"GENERATING", "...">>
MsgPlanAnalyse == <<"PLAN_ANALYSE">>
MsgProcessing(current_part, total_parts) ==
    <<"PROCESSING", SP, "(">> \o Decimal(current_part) \o <<"/">>
        \o Decimal(total_parts) \o <<")", "...">>
MsgSaved(relative_path) == <<"SAVED", ":", SP>> \o relative_path
MsgNoFiles == <<"NO_FILES_IN_PART">>
MsgComplete == <<"GENERATION_COMPLETE", "!">>
MsgAllDone == <<"ALL_TASKS_DONE">>
MsgError(detail) == <<"ERROR", ":", SP>> \o detail

-----------------------------------------------------------------------------
(* The state *)

VARIABLES
    project_path,   \* AIProjectBuilder.project_path
    requirement,    \* AIProjectBuilder.requirement
    settings,       \* AIProjectBuilder.ollama_api_url and .model_name
    ollama_client,  \* the fields of the OllamaClient
    ui,             \* where the UI thread is (idle, or inside a handler),
                    \* the last request it was given, and every pair of
                    \* URL and model configured so far
    message_queue,  \* AIProjectBuilder.message_queue, oldest event first
    maxsize,        \* its maxsize; 0 is a queue without a limit
    fs,             \* the filesystem
    runs,           \* the generation threads, in the order they were started
    running,        \* AIProjectBuilder.running
    user_actions,   \* how many requests the user has made
    call_in,        \* the argument of a function called on its own
    call_out        \* and what it returned

vars == <<project_path, requirement, settings, ollama_client, ui,
          message_queue, maxsize, fs, runs, running, user_actions,
          call_in, call_out>>

GroupSize == 3

DefaultUrl == "http://localhost:11434/api"
DefaultModel == "deepseek-coder-v2:latest"

\* The URL and the model the client is constructed with.
DefaultPair == [api_url |-> DefaultUrl, model_name |-> DefaultModel]

\* OllamaClient.__init__
NewClient == [api_url |-> DefaultUrl, model_name |-> DefaultModel,
              timeout |-> 10000]

\* AIProjectBuilder.__init__, but for the queue's maxsize
InitApp ==
    /\ project_path = <<>>
    /\ requirement = <<>>
    /\ settings = [ollama_api_url |-> DefaultUrl, model_name |-> DefaultModel]
    /\ ollama_client = NewClient
    /\ ui = [pc |-> "idle", last |-> <<"__init__">>,
             pairs |-> {DefaultPair}]
    /\ message_queue = <<>>
    /\ runs = <<>>
    /\ running = TRUE
    /\ user_actions = 0
    /\ call_out = [done |-> FALSE, value |-> <<>>]

\* The thread start_project_generation creates, before its first step.  log
\* is every event the run has put, in order; written is every file block it
\* has written, in order; raised_at is where an exception was raised.
NewRun(req, is_new_project) ==
    [pc |-> "prepare", requirement |-> req, is_new_project |-> is_new_project,
     prompt |-> <<>>, project_path |-> <<>>, calls |-> <<>>,
     responses |-> <<>>, groups |-> <<>>, i |-> 0, matches |-> <<>>,
     mi |-> 0, files_processed |-> 0, written |-> <<>>, log |-> <<>>,
     raised_at |-> ""]

Event(type, message) == [type |-> type, message |-> message]

\* message_queue.put of every event of evs, in order.  put waits while a
\* queue with a limit is full.
Put(evs) ==
    /\ maxsize = 0 \/ Len(message_queue) + Len(evs) <= maxsize
    /\ message_queue' = message_queue \o evs

\* The run's thread is executing run_project_generation.
Executing(run) == run.pc \notin {"done", "failed"}

\* The run has a request at the endpoint that has not returned.
InFlight(run) == run.pc = "gen_wait"

-----------------------------------------------------------------------------
(* The user's requests, handled on the UI thread *)

\* select_project_folder, the dialog answered with a folder.  (A cancelled
\* dialog returns "" and the handler changes nothing.)
select_project_folder(folder, maxUser) ==
    /\ running /\ ui.pc = "idle" /\ user_actions < maxUser
    /\ folder # <<>>
    /\ project_path' = folder
    /\ Put(<<Event("status", MsgFolderSelected(folder))>>)
    /\ ui' = [ui EXCEPT !.pc = "idle",
                        !.last = <<"select_project_folder", folder>>]
    /\ user_actions' = user_actions + 1
    /\ UNCHANGED <<requirement, settings, ollama_client, maxsize, fs,
                   runs, running, call_in, call_out>>

\* update_ollama_settings up to the first assignment of
\* OllamaClient.update_settings: self.api_url = api_url
update_settings_url(api_url, model_name, maxUser) ==
    /\ running /\ ui.pc = "idle" /\ user_actions < maxUser
    /\ settings' = [ollama_api_url |-> api_url, model_name |-> model_name]
    /\ ollama_client' = [ollama_client EXCEPT !.api_url = api_url]
    /\ ui' = [pc |-> "update_settings",
              last |-> <<"update_ollama_settings", api_url, model_name>>,
              pairs |-> ui.pairs \cup {[api_url |-> api_url,
                                        model_name |-> model_name]}]
    /\ user_actions' = user_actions + 1
    /\ UNCHANGED <<project_path, requirement, message_queue, maxsize, fs,
                   runs, running, call_in, call_out>>

\* The rest of it: self.model_name = model_name, and the status event.
update_settings_model ==
    /\ running /\ ui.pc = "update_settings"
    /\ ollama_client' = [ollama_client EXCEPT !.model_name = ui.last[3]]
    /\ Put(<<Event("status", MsgSettingsUpdated(ui.last[2], ui.last[3]))>>)
    /\ ui' = [ui EXCEPT !.pc = "idle"]
    /\ UNCHANGED <<project_path, requirement, settings, maxsize, fs, runs,
                   running, user_actions, call_in, call_out>>

\* start_project_generation that tests the requirement without strip().
start_unstripped(req, is_new_project, maxUser, maxRuns) ==
    /\ running /\ ui.pc = "idle" /\ user_actions < maxUser
    /\ requirement' = req
    /\ ui' = [ui EXCEPT !.pc = "idle",
                        !.last = <<"start_project_generation", req,
                                   is_new_project>>]
    /\ user_actions' = user_actions + 1
    /\ IF project_path = <<>>
       THEN /\ Put(<<Event("error", MsgNoFolder)>>)
            /\ UNCHANGED runs
       ELSE IF req = <<>>
       THEN /\ Put(<<Event("error", MsgNoRequirement)>>)
            /\ UNCHANGED runs
       ELSE /\ Len(runs) < maxRuns
            /\ Put(<<Event("status", MsgStart)>>)
            /\ runs' = Append(runs, NewRun(req, is_new_project))
    /\ UNCHANGED <<project_path, settings, ollama_client, maxsize, fs,
                   running, call_in, call_out>>

\* start_project_generation: the two checks, then the thread.
start_project_generation(req, is_new_project, maxUser, maxRuns) ==
    /\ running /\ ui.pc = "idle" /\ user_actions < maxUser
    /\ requirement' = req
    /\ ui' = [ui EXCEPT !.pc = "idle",
                        !.last = <<"start_project_generation", req,
                                   is_new_project>>]
    /\ user_actions' = user_actions + 1
    /\ IF project_path = <<>>
       THEN /\ Put(<<Event("error", MsgNoFolder)>>)
            /\ UNCHANGED runs
       ELSE IF Strip(req) = <<>>
       THEN /\ Put(<<Event("error", MsgNoRequirement)>>)
            /\ UNCHANGED runs
       ELSE /\ Len(runs) < maxRuns
            /\ Put(<<Event("status", MsgStart)>>)
            /\ runs' = Append(runs, NewRun(req, is_new_project))
    /\ UNCHANGED <<project_path, settings, ollama_client, maxsize, fs,
                   running, call_in, call_out>>

\* on_closing: the process exits, and with it every thread and the queue.
\* What stays is the filesystem.
on_closing ==
    /\ running /\ ui.pc = "idle"
    /\ running' = FALSE
    /\ project_path' = <<>> /\ requirement' = <<>>
    /\ settings' = [ollama_api_url |-> DefaultUrl, model_name |-> DefaultModel]
    /\ ollama_client' = NewClient
    /\ message_queue' = <<>> /\ runs' = <<>>
    /\ user_actions' = 0
    /\ ui' = [pc |-> "idle", last |-> <<"on_closing">>,
              pairs |-> {DefaultPair}]
    /\ UNCHANGED <<maxsize, fs, call_in, call_out>>

\* update_ui_from_queue, one turn of the loop that finds a message: the
\* message is taken and handed to the UI.  (A turn that finds the queue empty
\* changes nothing.)
update_ui_from_queue ==
    /\ running
    /\ message_queue # <<>>
    /\ message_queue' = Tail(message_queue)
    /\ UNCHANGED <<project_path, requirement, settings, ollama_client, ui,
                   maxsize, fs, runs, running, user_actions, call_in,
                   call_out>>

-----------------------------------------------------------------------------
(* run_project_generation, on the thread of run r *)

\* What every step of a run leaves alone.
RunFrame == UNCHANGED <<project_path, requirement, settings, ollama_client,
                        ui, maxsize, running, user_actions, call_in, call_out>>

\* Run r is at pc.
At(r, pc) == running /\ r \in 1..Len(runs) /\ runs[r].pc = pc

\* A step of run r: the events it puts, and what the thread holds afterwards.
Step(r, evs, run) ==
    /\ Put(evs)
    /\ runs' = [runs EXCEPT ![r] = [run EXCEPT !.log = @ \o evs]]

\* An except clause that ends the thread and reports nothing.
RaiseSilently(r, detail) ==
    Step(r, <<>>, [runs[r] EXCEPT !.pc = "failed", !.raised_at = runs[r].pc])

\* The except clause of run_project_generation: one error event, and the
\* thread ends.
Raise(r, detail) ==
    Step(r, <<Event("error", MsgError(detail))>>,
         [runs[r] EXCEPT !.pc = "failed", !.raised_at = runs[r].pc])

\* A call of OllamaClient.generate about to be made: the stage it is made
\* for, its prompt, the settings it is sent with, read later, and what comes
\* of it: the outcome of the request and the text generate returns.
NoOutcome == [raised |-> FALSE, status |-> 0, text |-> <<>>]

Call(stage, group, prompt) ==
    [stage |-> stage, group |-> group, prompt |-> prompt,
     api_url |-> "", model_name |-> "",
     returned |-> FALSE, outcome |-> NoOutcome, result |-> <<>>]

\* The call with what came of it.
Returned(call, outcome, result) ==
    [call EXCEPT !.returned = TRUE, !.outcome = outcome, !.result = result]

\* The first put of run_project_generation, by the mode.
prepare(r) ==
    /\ At(r, "prepare")
    /\ IF runs[r].is_new_project
       THEN Step(r, <<Event("status", MsgCreating)>>,
                 [runs[r] EXCEPT !.pc = "makedirs"])
       ELSE Step(r, <<Event("status", MsgAnalysing)>>,
                 [runs[r] EXCEPT !.pc = "scan"])
    /\ UNCHANGED fs
    /\ RunFrame

\* The prompt is built and generate_with_context is entered: its first call
\* is the planning call.
EnterPipeline(run, f) ==
    LET prompt == build_prompt(run.requirement, run.is_new_project, f,
                               project_path)
    IN  [run EXCEPT !.pc = "gen_url",
                    !.prompt = prompt,
                    !.project_path = project_path,
                    !.calls = <<Call("planning", <<>>,
                                     planning_prompt(prompt))>>]

\* New project: os.makedirs(self.project_path, exist_ok=True), which may
\* raise, then the prompt and the two events before the pipeline.
make_project_dir(r, ok) ==
    /\ At(r, "makedirs")
    /\ IF ok /\ ~MakedirsMustFail(fs, project_path)
       THEN /\ fs' = Makedirs(fs, project_path)
            /\ Step(r, <<Event("status", MsgGenerating),
                         Event("plan", MsgPlanAnalyse)>>,
                    EnterPipeline(runs[r], fs'))
       ELSE /\ Raise(r, <<"OSError">>)
            /\ UNCHANGED fs
    /\ RunFrame

\* Existing project: scan_project, which may raise, the count of the files
\* found, then the prompt (build_prompt scans again) and the two events.
scan_project(r, ok) ==
    /\ At(r, "scan")
    /\ IF ok
       THEN Step(r, <<Event("status",
                            MsgFound(Len(ScanProject(fs, project_path)))),
                      Event("status", MsgGenerating),
                      Event("plan", MsgPlanAnalyse)>>,
                 EnterPipeline(runs[r], fs))
       ELSE Raise(r, <<"OSError">>)
    /\ UNCHANGED fs
    /\ RunFrame

-----------------------------------------------------------------------------
(* OllamaClient.generate and generate_with_context, on the thread of run r *)

\* generate builds the request: f"{self.api_url}/generate" is read first,
generate_read_url(r) ==
    /\ At(r, "gen_url")
    /\ runs' = [runs EXCEPT ![r].pc = "gen_model",
                            ![r].calls[Len(runs[r].calls)].api_url =
                                ollama_client.api_url]
    /\ UNCHANGED <<message_queue, fs>>
    /\ RunFrame

\* generate that sends the model name the client was constructed with.
generate_post_default(r) ==
    /\ At(r, "gen_model")
    /\ runs' = [runs EXCEPT ![r].pc = "gen_wait",
                            ![r].calls[Len(runs[r].calls)].model_name =
                                DefaultModel]
    /\ UNCHANGED <<message_queue, fs>>
    /\ RunFrame

\* then self.model_name, and the request is posted.
generate_post(r) ==
    /\ At(r, "gen_model")
    /\ runs' = [runs EXCEPT ![r].pc = "gen_wait",
                            ![r].calls[Len(runs[r].calls)].model_name =
                                ollama_client.model_name]
    /\ UNCHANGED <<message_queue, fs>>
    /\ RunFrame

\* generate_with_context that returns after the last implementation or
\* follow-up call, without the finalization call.
NextCallNoFinal(run, stage, groups, f) ==
    LET gi == Cardinality({k \in 1..Len(run.calls) :
                              run.calls[k].stage = "implementation"})
    IN  CASE stage = "planning" ->
                 IF groups # <<>>
                 THEN Call("implementation", groups[1],
                           files_prompt(run.prompt, groups[1], f,
                                        run.project_path))
                 ELSE Call("core", <<>>, implementation_prompt(run.prompt))
          [] stage = "implementation" /\ gi < Len(groups) ->
                 Call("implementation", groups[gi + 1],
                      files_prompt(run.prompt, groups[gi + 1], f,
                                   run.project_path))
          [] stage = "core" ->
                 Call("followup", <<>>, followup_prompt(run.prompt))
          [] OTHER -> Call("return", <<>>, <<>>)

\* The stage that follows the stage of the call that returned, in
\* generate_with_context: the next call, or the stage "return".
NextCall(run, stage, groups, f) ==
    LET prompt == run.prompt
        gi == Cardinality({k \in 1..Len(run.calls) :
                              run.calls[k].stage = "implementation"})
        group(k) == Call("implementation", groups[k],
                         files_prompt(prompt, groups[k], f, run.project_path))
        final == Call("finalization", <<>>, finalization_prompt(prompt))
    IN  CASE stage = "planning" ->
                 IF groups # <<>> THEN group(1)
                 ELSE Call("core", <<>>, implementation_prompt(prompt))
          [] stage = "implementation" ->
                 IF gi < Len(groups) THEN group(gi + 1) ELSE final
          [] stage = "core" ->
                 Call("followup", <<>>, followup_prompt(prompt))
          [] stage = "followup" -> final
          [] OTHER -> Call("return", <<>>, <<>>)

\* generate_with_context that takes the branch without planned files
\* whatever the planning response holds.
GroupsAfterNone(run, stage, response) == <<>>

\* The groups of the run after the call of the given stage returned
\* response: the planning response decides them.
GroupsAfter(run, stage, response) ==
    IF stage = "planning"
    THEN _group_files(_extract_planned_files(response), GroupSize)
    ELSE run.groups

\* requests.post returns or raises; generate returns its text and
\* generate_with_context goes on to the next stage, or returns the
\* responses to run_project_generation.
generate_return(r, outcome) ==
    /\ At(r, "gen_wait")
    /\ \E run \in {runs[r]} :
       \E stage \in {run.calls[Len(run.calls)].stage} :
       \E response \in {GenerateResult(outcome)} :
       \E groups \in {GroupsAfter(run, stage, response)} :
       \E next \in {NextCall(run, stage, groups, fs)} :
           runs' = [runs EXCEPT
                ![r].responses = Append(@, response),
                ![r].groups = groups,
                ![r].calls =
                    LET done == [@ EXCEPT ![Len(@)] =
                                     Returned(@, outcome, response)]
                    IN  IF next.stage = "return" THEN done
                        ELSE Append(done, next),
                ![r].pc = IF next.stage = "return" THEN "process"
                          ELSE "gen_url",
                ![r].i = IF next.stage = "return" THEN 1 ELSE @]
    /\ UNCHANGED <<message_queue, fs>>
    /\ RunFrame

-----------------------------------------------------------------------------
(* process_ai_response, on the thread of run r *)

\* process_ai_response that counts the responses down: (n/n) first.
process_begin_countdown(r) ==
    /\ At(r, "process")
    /\ LET run == runs[r]
           matches == FileMatches(run.responses[run.i])
       IN  Step(r, <<Event("status",
                           MsgProcessing(Len(run.responses) - run.i + 1,
                                         Len(run.responses)))>>,
                [run EXCEPT !.matches = matches,
                            !.mi = 1,
                            !.files_processed = 0,
                            !.pc = IF matches = <<>> THEN "plans"
                                   ELSE "write"])
    /\ UNCHANGED fs
    /\ RunFrame

\* The status event of response i, and the file blocks found in it.
process_begin(r) ==
    /\ At(r, "process")
    /\ LET run == runs[r]
           matches == FileMatches(run.responses[run.i])
       IN  Step(r, <<Event("status",
                           MsgProcessing(run.i, Len(run.responses)))>>,
                [run EXCEPT !.matches = matches,
                            !.mi = 1,
                            !.files_processed = 0,
                            !.pc = IF matches = <<>> THEN "plans"
                                   ELSE "write"])
    /\ UNCHANGED fs
    /\ RunFrame

\* The path a file block is written at.
ResolvedPath(path, root) ==
    IF IsAbs(Strip(path)) THEN Strip(path) ELSE Join(root, Strip(path))

\* The filesystem after one file block m is applied, where nothing fails that
\* the filesystem f does not make fail: the directories are made, then the
\* file is written; an exception leaves what was done before it.
apply_file(f, m, root) ==
    LET file_path == ResolvedPath(m.path, root)
        made == Makedirs(f, Dirname(file_path))
    IN  IF MakedirsMustFail(f, Dirname(file_path)) THEN f
        ELSE IF OpenMustFail(made, file_path) THEN made
        ELSE WriteFile(made, file_path, m.content)

\* Applying m raises, whatever else happens: a file is in the way of the
\* directory, or the path is a directory.
ApplyMustFail(f, m, root) ==
    LET file_path == ResolvedPath(m.path, root)
    IN  \/ MakedirsMustFail(f, Dirname(file_path))
        \/ OpenMustFail(Makedirs(f, Dirname(file_path)), file_path)

\* The loop over the matches of one response, where nothing fails that the
\* filesystem does not make fail: the exception of one block ends the loop.
RECURSIVE ApplyAll(_, _, _)
ApplyAll(f, matches, root) ==
    IF matches = <<>> THEN f
    ELSE IF ApplyMustFail(f, Head(matches), root)
    THEN apply_file(f, Head(matches), root)
    ELSE ApplyAll(apply_file(f, Head(matches), root), Tail(matches), root)

\* The file events of that loop: one for each block written, in order.
RECURSIVE FileEvents(_, _, _)
FileEvents(f, matches, root) ==
    IF matches = <<>> \/ ApplyMustFail(f, Head(matches), root) THEN <<>>
    ELSE <<Event("file",
                 MsgSaved(Relpath(ResolvedPath(Head(matches).path, root),
                                  root)))>>
         \o FileEvents(apply_file(f, Head(matches), root), Tail(matches), root)

\* One file block: the directories, the file, the file event.  How far it
\* gets is the filesystem's answer: "ok", or the call that raises
\* ("makedirs", "open", "write").
save_file(r, io) ==
    /\ At(r, "write")
    /\ LET run == runs[r]
           m == run.matches[run.mi]
           file_path == ResolvedPath(m.path, project_path)
           made == Makedirs(fs, Dirname(file_path))
       IN  IF io = "makedirs" \/ MakedirsMustFail(fs, Dirname(file_path))
           THEN /\ Raise(r, <<"OSError">>)
                /\ UNCHANGED fs
           ELSE IF io = "open" \/ OpenMustFail(made, file_path)
           THEN /\ Raise(r, <<"OSError">>)
                /\ fs' = made
           ELSE IF io = "write"
           THEN /\ Raise(r, <<"OSError">>)
                /\ fs' = WriteFile(made, file_path, <<>>)
           ELSE /\ fs' = apply_file(fs, m, project_path)
                /\ Step(r, <<Event("file",
                                   MsgSaved(Relpath(file_path, project_path)))>>,
                        [run EXCEPT
                            !.files_processed = @ + 1,
                            !.written = Append(@, [path |-> file_path,
                                                   content |-> m.content]),
                            !.mi = @ + 1,
                            !.pc = IF run.mi = Len(run.matches)
                                   THEN "plans" ELSE "write"])
    /\ RunFrame

\* The plan event of every plan note that is not blank.
RECURSIVE PlanEvents(_)
PlanEvents(plans) ==
    IF plans = <<>> THEN <<>>
    ELSE (IF Strip(Head(plans)) # <<>>
          THEN <<Event("plan", Strip(Head(plans)))>> ELSE <<>>)
         \o PlanEvents(Tail(plans))

\* The end of process_ai_response for response i: the plan events, the
\* status event of a response without files, and on to the next response.
process_end(r) ==
    /\ At(r, "plans")
    /\ LET run == runs[r]
       IN  Step(r, PlanEvents(PlanMatches(run.responses[run.i]))
                     \o (IF run.files_processed = 0
                         THEN <<Event("status", MsgNoFiles)>> ELSE <<>>),
                [run EXCEPT
                    !.i = IF run.i < Len(run.responses) THEN @ + 1 ELSE @,
                    !.pc = IF run.i < Len(run.responses)
                           THEN "process" ELSE "complete"])
    /\ UNCHANGED fs
    /\ RunFrame

\* The two events that end run_project_generation.
complete(r) ==
    /\ At(r, "complete")
    /\ Step(r, <<Event("status", MsgComplete), Event("plan", MsgAllDone)>>,
            [runs[r] EXCEPT !.pc = "done"])
    /\ UNCHANGED fs
    /\ RunFrame

-----------------------------------------------------------------------------
(* The inputs: what the user asks for, what the endpoint answers, what the *)
(* filesystem holds                                                        *)

\* The folder the user selects.
Root == <<"/", "p">>
Folders == {Root}

\* The requirement the user types: nothing, a blank, a requirement.
Requirements == {<<>>, <<SP>>, <<"todo">>}

\* The settings the user enters.
Urls == {DefaultUrl, "http://other:11434/api"}
Models == {DefaultModel, "llama3"}

APy == <<"a", ".", "py">>

\* A response without a file block, a structure or a plan.
PlainReply == <<"ok">>

\* "```file:a.py\nA```"
OneFileReply == MARK \o APy \o <<NL, "A">> \o FENCE

\* A structure of four files, and no file block:
\* "<project structure>:\na.py b.py c.py d.py\n\n"
FourFilesReply ==
    <<"xiangmujiegou", ":", NL>> \o APy \o <<SP, "b", ".", "py", SP,
      "c", ".", "py", SP, "d", ".", "py", NL, NL>>

\* A block for the file of OneFileReply under another spelling of its path:
\* "```file:./a.py\nA0```"
AliasReply == MARK \o <<".", "/">> \o APy \o <<NL, "A0">> \o FENCE

\* Two file blocks, the second for the path of OneFileReply, and a plan:
\* "```file:b.py\nB```\n```file: a.py \nA2\n\nA3```\n<next-step plan>: more"
TwoFilesReply ==
    MARK \o <<"b", ".", "py", NL, "B">> \o FENCE \o <<NL>>
      \o MARK \o <<SP>> \o APy \o <<SP, NL, "A2", NL, NL, "A3">> \o FENCE
      \o <<NL, "xiayibujihua", ":", SP, "more">>

Ok(text) == [raised |-> FALSE, status |-> 200, text |-> text]
Status(code, text) == [raised |-> FALSE, status |-> code, text |-> text]
Raised(text) == [raised |-> TRUE, status |-> 0, text |-> text]

\* What one request can come to, in the runs of one user request at a time.
Outcomes ==
    {Ok(PlainReply), Ok(OneFileReply), Ok(FourFilesReply), Ok(TwoFilesReply),
     Ok(AliasReply), Status(500, <<"boom">>), Raised(<<"timeout">>)}

\* What one request comes to where runs and requests interleave.
FewOutcomes == {Ok(OneFileReply)}

\* How far the writing of one file gets.
IoResults == {"ok", "makedirs", "open", "write"}

\* The paths a plan can name.
PathPool == {APy, <<"b", ".", "py">>}

\* The project folder before the program starts: absent, or a project with
\* one file.
OldFs == [dirs |-> {<<"/">>, Root}, files |-> (Join(Root, APy) :> <<"old">>)]
InitialFs == {EmptyFs, OldFs}

-----------------------------------------------------------------------------
(* The specifications *)

MaxUserActions == 3
MaxRuns == 2
MaxQueue == 1

\* The program with a queue that holds one message: queue.Queue(1).
InitBounded == InitApp /\ maxsize = 1 /\ fs \in InitialFs /\ call_in = <<>>

\* The program as constructed (queue.Queue() has no limit), on either
\* filesystem.
Init == InitApp /\ maxsize = 0 /\ fs \in InitialFs /\ call_in = <<>>

\* The behaviours explored are those where the consumer is at most MaxQueue
\* messages behind when a producer takes a step.
QueueRoom == Len(message_queue) < MaxQueue

Threads == 1..Len(runs)

\* The whole program: the user's requests at any time, the generation
\* threads, the consumer of the queue.
Next ==
    \/ \E folder \in Folders :
           QueueRoom /\ select_project_folder(folder, MaxUserActions)
    \/ \E u \in Urls, m \in Models : update_settings_url(u, m, MaxUserActions)
    \/ QueueRoom /\ update_settings_model
    \/ \E req \in Requirements, n \in BOOLEAN :
           /\ QueueRoom
           /\ start_project_generation(req, n, MaxUserActions, MaxRuns)
    \/ on_closing
    \/ update_ui_from_queue
    \/ \E r \in Threads : QueueRoom /\ prepare(r)
    \/ \E r \in Threads, ok \in BOOLEAN : QueueRoom /\ make_project_dir(r, ok)
    \/ \E r \in Threads, ok \in BOOLEAN : QueueRoom /\ scan_project(r, ok)
    \/ \E r \in Threads : generate_read_url(r)
    \/ \E r \in Threads : generate_post(r)
    \/ \E r \in Threads, outcome \in FewOutcomes : generate_return(r, outcome)
    \/ \E r \in Threads : QueueRoom /\ process_begin(r)
    \/ \E r \in Threads, io \in {"ok", "open"} : QueueRoom /\ save_file(r, io)
    \/ \E r \in Threads : QueueRoom /\ process_end(r)
    \/ \E r \in Threads : QueueRoom /\ complete(r)

Spec == Init /\ [][Next]_vars

\* One run at a time, with every answer of the endpoint and of the
\* filesystem: the user selects the folder and asks once the run before has
\* ended.
NoRunExecuting == \A r \in Threads : ~Executing(runs[r])

MaxRunRequests == 2
MaxRunsAlone == 1

NextRun ==
    \/ \E folder \in Folders : select_project_folder(folder, MaxRunRequests)
    \/ \E req \in Requirements, n \in BOOLEAN :
           /\ NoRunExecuting
           /\ start_project_generation(req, n, MaxRunRequests, MaxRunsAlone)
    \/ \E r \in Threads : prepare(r)
    \/ \E r \in Threads, ok \in BOOLEAN : make_project_dir(r, ok)
    \/ \E r \in Threads, ok \in BOOLEAN : scan_project(r, ok)
    \/ \E r \in Threads : generate_read_url(r)
    \/ \E r \in Threads : generate_post(r)
    \/ \E r \in Threads, outcome \in Outcomes : generate_return(r, outcome)
    \/ \E r \in Threads : process_begin(r)
    \/ \E r \in Threads, io \in IoResults : save_file(r, io)
    \/ \E r \in Threads : process_end(r)
    \/ \E r \in Threads : complete(r)

SpecRun == Init /\ [][NextRun]_vars

\* One run at a time next to the consumer of the queue.  The thread of a run
\* takes its next step whenever it has one (the request to the endpoint has a
\* timeout: it returns or raises); nothing says when the consumer, or the
\* user, takes a step.
RunStep(r) ==
    \/ prepare(r)
    \/ \E ok \in BOOLEAN : make_project_dir(r, ok)
    \/ \E ok \in BOOLEAN : scan_project(r, ok)
    \/ generate_read_url(r)
    \/ generate_post(r)
    \/ \E outcome \in FewOutcomes : generate_return(r, outcome)
    \/ process_begin(r)
    \/ \E io \in {"ok", "open"} : save_file(r, io)
    \/ process_end(r)
    \/ complete(r)

NextProducer ==
    \/ \E folder \in Folders : select_project_folder(folder, MaxRunRequests)
    \/ \E req \in Requirements, n \in BOOLEAN :
           /\ NoRunExecuting
           /\ start_project_generation(req, n, MaxRunRequests, MaxRunsAlone)
    \/ update_ui_from_queue
    \/ \E r \in Threads : prepare(r)
    \/ \E r \in Threads, ok \in BOOLEAN : make_project_dir(r, ok)
    \/ \E r \in Threads, ok \in BOOLEAN : scan_project(r, ok)
    \/ \E r \in Threads : generate_read_url(r)
    \/ \E r \in Threads : generate_post(r)
    \/ \E r \in Threads, outcome \in FewOutcomes : generate_return(r, outcome)
    \/ \E r \in Threads : process_begin(r)
    \/ \E r \in Threads, io \in {"ok", "open"} : save_file(r, io)
    \/ \E r \in Threads : process_end(r)
    \/ \E r \in Threads : complete(r)

SpecProducer ==
    /\ Init
    /\ [][NextProducer]_vars
    /\ \A r \in 1..MaxRunsAlone : WF_vars(RunStep(r))

\* _group_files on its own, for every list of at most MaxFiles planned files.
MaxFiles == 7

FileLists == UNION {[1..n -> PathPool] : n \in 0..MaxFiles}

InitGroup ==
    /\ InitApp /\ maxsize = 0 /\ fs = EmptyFs
    /\ call_in \in FileLists

group_files_call ==
    /\ ~call_out.done
    /\ call_out' = [done |-> TRUE, value |-> _group_files(call_in, GroupSize)]
    /\ UNCHANGED <<project_path, requirement, settings, ollama_client, ui,
                   message_queue, maxsize, fs, runs, running, user_actions,
                   call_in>>

NextGroup == group_files_call

SpecGroup == InitGroup /\ [][NextGroup]_vars

\* One run at a time against an endpoint that answers every request with the
\* status 500, with one body or another; the filesystem lets every call
\* succeed that it can.
ErrorBodies == {<<>>, <<"boom">>, OneFileReply, FourFilesReply}

Outcomes500 == {Status(500, body) : body \in ErrorBodies}

Next500 ==
    \/ \E folder \in Folders : select_project_folder(folder, MaxRunRequests)
    \/ \E req \in Requirements, n \in BOOLEAN :
           /\ NoRunExecuting
           /\ start_project_generation(req, n, MaxRunRequests, MaxRunsAlone)
    \/ \E r \in Threads : prepare(r)
    \/ \E r \in Threads : make_project_dir(r, TRUE)
    \/ \E r \in Threads : scan_project(r, TRUE)
    \/ \E r \in Threads : generate_read_url(r)
    \/ \E r \in Threads : generate_post(r)
    \/ \E r \in Threads, outcome \in Outcomes500 : generate_return(r, outcome)
    \/ \E r \in Threads : process_begin(r)
    \/ \E r \in Threads : save_file(r, "ok")
    \/ \E r \in Threads : process_end(r)
    \/ \E r \in Threads : complete(r)

Spec500 == Init /\ [][Next500]_vars

\* One file block applied to a project folder, again and again: for every
\* filesystem of StartFs and every block of Blocks.
MaxApplications == 2

SubXPy == <<"sub", "/", "x", ".", "py">>

\* A project where a.py is a directory, one where sub is a file, one with two
\* files and the directory sub.
DirFs == [dirs |-> {<<"/">>, Root, Join(Root, APy)}, files |-> <<>>]
FileInTheWayFs ==
    [dirs |-> {<<"/">>, Root}, files |-> (Join(Root, <<"sub">>) :> <<"old">>)]
FullFs ==
    [dirs |-> {<<"/">>, Root, Join(Root, <<"sub">>)},
     files |-> (Join(Root, APy) :> <<"A">>) @@ (Join(Root, SubXPy) :> <<"old">>)]

StartFs == {EmptyFs, OldFs, DirFs, FileInTheWayFs, FullFs}

BlockPaths ==
    {APy, <<".", "/">> \o APy, <<SP>> \o APy \o <<SP>>, SubXPy,
     Join(Root, APy), <<"b", ".", "py">>}

BlockContents == {<<"A">>, <<"A2", NL, NL, "A3">>, <<"old">>}

Blocks == [path : BlockPaths, content : BlockContents]

InitApply ==
    /\ project_path = Root
    /\ requirement = <<>>
    /\ settings = [ollama_api_url |-> DefaultUrl, model_name |-> DefaultModel]
    /\ ollama_client = NewClient
    /\ ui = [pc |-> "idle", last |-> <<"select_project_folder", Root>>,
             pairs |-> {DefaultPair}]
    /\ message_queue = <<>>
    /\ maxsize = 0
    /\ runs = <<>>
    /\ running = TRUE
    /\ user_actions = 1
    /\ fs \in StartFs
    /\ call_in \in Blocks
    /\ call_out = [done |-> FALSE, value |-> <<fs>>]

\* call_out.value is the filesystem at the start and after each application.
apply_file_call ==
    /\ Len(call_out.value) <= MaxApplications
    /\ fs' = apply_file(fs, call_in, project_path)
    /\ call_out' = [done |-> TRUE, value |-> Append(call_out.value, fs')]
    /\ UNCHANGED <<project_path, requirement, settings, ollama_client, ui,
                   message_queue, maxsize, runs, running, user_actions,
                   call_in>>

NextApply == apply_file_call

SpecApply == InitApply /\ [][NextApply]_vars

\* The file blocks of one response, extracted and written: for a response
\* that is a well-formed block (marker, path line, content, closing fence)
\* and the text after it.
WrittenPaths == {APy, <<SP>> \o APy \o <<SP>>}

\* Contents without a fence: none, one line, lines with a blank line between
\* them, a newline alone, a line and its newline, spaces around a line.
WrittenContents ==
    {<<>>, <<"A">>, <<"A", NL, NL, "B">>, <<NL>>, <<"A", NL>>,
     <<SP, "A", SP>>}

\* What follows the block: nothing, a line of text, another block, a fenced
\* text.
Tails ==
    {<<>>, <<NL, "more">>,
     <<NL>> \o MARK \o <<"b", ".", "py", NL, "B">> \o FENCE,
     <<NL, "more", NL>> \o FENCE \o <<"sh", NL, "run", NL>> \o FENCE}

\* "```file:<path>\n<content>```<tail>"
BlockText(b) == MARK \o b.path \o <<NL>> \o b.content \o FENCE \o b.tail

InitExtract ==
    /\ project_path = Root
    /\ requirement = <<>>
    /\ settings = [ollama_api_url |-> DefaultUrl, model_name |-> DefaultModel]
    /\ ollama_client = NewClient
    /\ ui = [pc |-> "idle", last |-> <<"select_project_folder", Root>>,
             pairs |-> {DefaultPair}]
    /\ message_queue = <<>>
    /\ maxsize = 0
    /\ runs = <<>>
    /\ running = TRUE
    /\ user_actions = 1
    /\ fs \in InitialFs
    /\ call_in \in [path : WrittenPaths, content : WrittenContents,
                     tail : Tails]
    /\ call_out = [done |-> FALSE, value |-> <<>>]

\* call_out.value is what re.finditer found in the response.
process_files_call ==
    /\ ~call_out.done
    /\ LET matches == FileMatches(BlockText(call_in))
       IN  /\ fs' = ApplyAll(fs, matches, project_path)
           /\ call_out' = [done |-> TRUE, value |-> matches]
    /\ UNCHANGED <<project_path, requirement, settings, ollama_client, ui,
                   message_queue, maxsize, runs, running, user_actions,
                   call_in>>

NextExtract == process_files_call

SpecExtract == InitExtract /\ [][NextExtract]_vars

\* The two extractions on one response, and the writing of what the first
\* finds with its file events: for every response made of a piece with or without a marker and a
\* piece with or without a structure heading, in either order.
MarkerPieces ==
    {<<>>,
     <<"text", NL>>,
     MARK \o <<"x", ".", "py", NL, "X">> \o FENCE \o <<NL>>,
     MARK \o <<"x", ".", "py", NL, "X", NL>>,
     MARK \o <<NL, "X">> \o FENCE \o <<NL>>,
     MARK \o <<"x", ".", "py">>,
     FENCE \o <<"sh", NL, "run", NL>> \o FENCE \o <<NL>>}

StructurePieces ==
    {<<>>,
     <<"xiangmujiegou", ":", NL>> \o APy \o <<SP, "b", ".", "py", NL, NL>>,
     <<"wenjianjiegou", "fullcolon", SP>> \o APy \o FENCE,
     <<"mulujiegou", NL, "src", "/", "main", ".", "py", NL, NL>>,
     <<"jiegou", ":", NL>> \o APy \o <<NL, NL>>}

Responses ==
    {m \o t : m \in MarkerPieces, t \in StructurePieces}
        \cup {t \o m : m \in MarkerPieces, t \in StructurePieces}

InitPlan ==
    /\ project_path = Root
    /\ requirement = <<>>
    /\ settings = [ollama_api_url |-> DefaultUrl, model_name |-> DefaultModel]
    /\ ollama_client = NewClient
    /\ ui = [pc |-> "idle", last |-> <<"select_project_folder", Root>>,
             pairs |-> {DefaultPair}]
    /\ message_queue = <<>>
    /\ maxsize = 0
    /\ runs = <<>>
    /\ running = TRUE
    /\ user_actions = 1
    /\ call_in \in [response : Responses, fs : InitialFs]
    /\ fs = call_in.fs
    /\ call_out = [done |-> FALSE, value |-> <<>>]

\* call_out.value is what each extraction returned.
extract_call ==
    /\ ~call_out.done
    /\ LET matches == FileMatches(call_in.response)
       IN  /\ fs' = ApplyAll(fs, matches, project_path)
           /\ message_queue' = FileEvents(fs, matches, project_path)
           /\ call_out' =
                  [done |-> TRUE,
                   value |-> [files |-> matches,
                              planned |->
                                  _extract_planned_files(call_in.response)]]
    /\ UNCHANGED <<project_path, requirement, settings, ollama_client, ui,
                   maxsize, runs, running, user_actions, call_in>>

NextPlan == extract_call

SpecPlan == InitPlan /\ [][NextPlan]_vars

-----------------------------------------------------------------------------
(* What is checked *)

\* The run is inside generate_with_context.
InPipeline(run) == run.pc \in {"gen_url", "gen_model", "gen_wait"}

\* generate_with_context has returned its responses.
PipelineReturned(run) ==
    run.calls # <<>> /\ ~InPipeline(run)

\* The request of the call failed: an exception, or a status other than 200.
Failed(call) ==
    call.returned /\ (call.outcome.raised \/ call.outcome.status # 200)

StagesOf(run) == [k \in 1..Len(run.calls) |-> run.calls[k].stage]

IsSuffix(t, suffix) ==
    /\ Len(suffix) <= Len(t)
    /\ SubSeq(t, Len(t) - Len(suffix) + 1, Len(t)) = suffix

\* C1: in every call of generate_with_context the calls are issued in the
\* order planning first, finalization last, with only implementation (core)
\* and follow-up calls in between, one after the other, and the list returned
\* holds one response per call issued, response k being what call k returned.
C1_PipelineOrder ==
    \A r \in Threads :
        LET run == runs[r]
            calls == run.calls
            n == Len(calls)
        IN  /\ (InPipeline(run) \/ PipelineReturned(run)) =>
                   n >= 1 /\ calls[1].stage = "planning"
            /\ \A k \in 2..n : calls[k].stage # "planning"
            /\ \A k \in 1..(n - 1) : calls[k].stage # "finalization"
            /\ \A k \in 2..(n - 1) :
                   calls[k].stage \in {"implementation", "core", "followup"}
            /\ \A k \in 1..n : calls[k].returned <=> k <= Len(run.responses)
            /\ Len(run.responses) <= n
            /\ \A k \in 1..Len(run.responses) :
                   run.responses[k] = calls[k].result
            /\ InPipeline(run) => Len(run.responses) = n - 1
            /\ PipelineReturned(run) =>
                   /\ calls[n].stage = "finalization"
                   /\ Len(run.responses) = n

\* A pipeline that returned four responses that differ, for a plan of two
\* groups.
C1_Witness ==
    \E r \in Threads :
        /\ PipelineReturned(runs[r])
        /\ StagesOf(runs[r]) = <<"planning", "implementation",
                                 "implementation", "finalization">>
        /\ Cardinality({runs[r].responses[k] : k \in 1..4}) = 4

\* C2: when the planning response yields N >= 1 planned files, the calls
\* between planning and finalization are ceil(N/3) implementation calls, one
\* per group of three in plan order, and no core or follow-up call; when it
\* yields none they are the core call and then the follow-up call, whatever
\* the core call returned.
C2_BranchSelection ==
    \A r \in Threads :
        LET run == runs[r]
            calls == run.calls
            n == Len(calls)
            planned == _extract_planned_files(run.responses[1])
            N == Len(planned)
            upto(k) == IF GroupSize * k < N THEN GroupSize * k ELSE N
        IN  run.responses # <<>> =>
              IF N >= 1
              THEN /\ \A k \in 2..n :
                        /\ calls[k].stage \in {"implementation", "finalization"}
                        /\ calls[k].stage = "implementation" =>
                               calls[k].group =
                                   SubSeq(planned, GroupSize * (k - 2) + 1,
                                          upto(k - 1))
                        /\ calls[k].stage = "finalization" =>
                               k = ((N + 2) \div 3) + 2
                   /\ PipelineReturned(run) => n = ((N + 2) \div 3) + 2
              ELSE /\ n <= 4
                   /\ n >= 2 /\ calls[2].stage = "core"
                   /\ calls[2].prompt = run.prompt \o <<NL, NL, "SUFFIX_CORE">>
                   /\ n >= 3 =>
                        /\ calls[3].stage = "followup"
                        /\ calls[3].prompt =
                               run.prompt \o <<NL, NL, "SUFFIX_FOLLOWUP">>
                   /\ n >= 4 => calls[4].stage = "finalization"
                   /\ PipelineReturned(run) => n = 4

\* A pipeline that returned for a plan of four files: a group of three, a
\* group of one.
C2_Witness ==
    \E r \in Threads :
        /\ PipelineReturned(runs[r])
        /\ Len(_extract_planned_files(runs[r].responses[1])) = 4
        /\ StagesOf(runs[r]) = <<"planning", "implementation",
                                 "implementation", "finalization">>
        /\ Len(runs[r].calls[2].group) = 3
        /\ Len(runs[r].calls[3].group) = 1

\* C3: _group_files(files, 3) returns ceil(N/3) groups of one to three
\* files each, and the groups in order make up the list it was given.
C3_GroupFiles ==
    call_out.done =>
        LET groups == call_out.value
            N == Len(call_in)
        IN  /\ Len(groups) = (N + 2) \div 3
            /\ \A k \in 1..Len(groups) : Len(groups[k]) \in 1..3
            /\ Concat(groups) = call_in

\* Seven files, some of them twice, in three groups.
C3_Witness ==
    /\ call_out.done
    /\ Len(call_in) = 7
    /\ call_in[1] = call_in[2]
    /\ call_in[1] # call_in[3]
    /\ Len(call_out.value) = 3

\* C4: a request that fails (a status other than 200, or an exception) makes
\* generate return the failure marker followed by a text that ends with the
\* error's detail; the run is not ended by it, the stage after it is issued
\* (the finalization at last), and the pipeline makes as many calls as its
\* plan asks for, none twice.
C4_FailureNeverAborts ==
    \A r \in Threads :
        LET run == runs[r]
            calls == run.calls
            n == Len(calls)
        IN  /\ run.raised_at \notin {"gen_url", "gen_model", "gen_wait"}
            /\ \A k \in 1..n :
                   Failed(calls[k]) =>
                       /\ IsAt(calls[k].result, 1, FailureMarker)
                       /\ IsSuffix(calls[k].result, calls[k].outcome.text)
                       /\ run.responses[k] = calls[k].result
                       /\ k = n => calls[k].stage = "finalization"
            /\ PipelineReturned(run) =>
                   n = 2 + (IF run.groups # <<>> THEN Len(run.groups) ELSE 2)

\* A run that ended with "generation complete" although its planning request
\* got a status 500 and a later one raised.
C4_Witness ==
    \E r \in Threads :
        /\ runs[r].pc = "done"
        /\ Failed(runs[r].calls[1])
        /\ runs[r].calls[1].outcome.status = 500
        /\ \E k \in 2..Len(runs[r].calls) : runs[r].calls[k].outcome.raised
        /\ Len(runs[r].calls) = 4

Contains(t, pat) == \E i \in 1..(Len(t) + 1) : IsAt(t, i, pat)

\* A file's content as files_prompt quotes it.
Quoted(content) == FENCE \o <<NL>> \o content \o <<NL>> \o FENCE

HasEvent(run, ev) == \E k \in 1..Len(run.log) : run.log[k] = ev

\* C5: a file block whose writing raises an I/O error does not end the run:
\* the blocks and the responses after it are still processed and the run
\* ends with the "generation complete" event.
C5_WriteFailureIsNotFatal ==
    \A r \in Threads :
        runs[r].raised_at = "write" =>
            \/ Executing(runs[r])
            \/ HasEvent(runs[r], Event("status", MsgComplete))

\* The first of two file blocks of the first of three responses could not be
\* written, and the run is over: the second block and the other responses
\* are left, and the last event is the error.
C5_Witness ==
    \E r \in Threads :
        LET run == runs[r]
        IN  /\ run.raised_at = "write"
            /\ ~Executing(run)
            /\ run.i = 1 /\ Len(run.responses) = 3
            /\ run.mi = 1 /\ Len(run.matches) = 2
            /\ run.written = <<>>
            /\ run.log[Len(run.log)].type = "error"
            /\ ~HasEvent(run, Event("status", MsgComplete))

\* C6: at most one generation run is executing at any time.
C6_OneRunAtATime ==
    Cardinality({r \in Threads : Executing(runs[r])}) <= 1

\* A second request was accepted while the first run was writing its files,
\* and both threads are executing.
C6_Witness ==
    /\ Len(runs) = 2
    /\ runs[1].pc = "write"
    /\ runs[2].pc \in {"prepare", "makedirs", "scan", "gen_url"}
    /\ ui.last[1] = "start_project_generation"

\* C7: at most one request to the model endpoint is in flight at any time.
C7_OneCallInFlight ==
    Cardinality({r \in Threads : InFlight(runs[r])}) <= 1

\* Two runs each wait for the answer to a request of theirs.
C7_Witness ==
    /\ Len(runs) = 2
    /\ InFlight(runs[1]) /\ InFlight(runs[2])
    /\ runs[1].calls[Len(runs[1].calls)].api_url # ""
    /\ runs[2].calls[Len(runs[2].calls)].api_url # ""

\* The path of a planned file, as files_prompt resolves it.
FullPath(run, file_path) ==
    IF IsAbs(file_path) THEN file_path ELSE Join(run.project_path, file_path)

C9_InvalidStartRejected ==
    [][(/\ user_actions' = user_actions + 1
        /\ ui'.last[1] = "start_project_generation"
        /\ \/ project_path = <<>>
           \/ \A k \in 1..Len(ui'.last[2]) : IsSpace(ui'.last[2][k]))
       => (/\ message_queue' =
                  Append(message_queue,
                         Event("error", IF project_path = <<>>
                                        THEN MsgNoFolder
                                        ELSE MsgNoRequirement))
           /\ runs' = runs
           /\ fs' = fs)]_vars

\* The folder is selected and the last request was a start with a blank
\* requirement: the error is the last event, and there is no run.
C9_Witness ==
    /\ ui.last = <<"start_project_generation", <<SP>>, TRUE>>
    /\ project_path # <<>>
    /\ runs = <<>>
    /\ message_queue # <<>>
    /\ message_queue[Len(message_queue)] = Event("error", MsgNoRequirement)

\* C10: a run in which an exception was raised, wherever it was raised, has
\* ended with one error event, its last, and has no "generation complete"
\* event; a run in which none was raised has no error event.
C10_OneErrorEvent ==
    \A r \in Threads :
        LET run == runs[r]
            errors == {k \in 1..Len(run.log) : run.log[k].type = "error"}
        IN  /\ run.pc = "failed" <=> run.raised_at # ""
            /\ run.raised_at \in {"", "makedirs", "scan", "write"}
            /\ run.pc = "failed" =>
                   /\ errors = {Len(run.log)}
                   /\ ~HasEvent(run, Event("status", MsgComplete))
            /\ run.pc # "failed" => errors = {}
            /\ HasEvent(run, Event("status", MsgComplete)) => run.pc = "done"

\* A run that wrote one file, could not write the next, and ended with the
\* error event after the file event.
C10_Witness ==
    \E r \in Threads :
        LET run == runs[r]
        IN  /\ run.pc = "failed" /\ run.raised_at = "write"
            /\ Len(run.written) = 1
            /\ Len(run.log) >= 2
            /\ run.log[Len(run.log) - 1].type = "file"
            /\ run.log[Len(run.log)].type = "error"

\* Every file block of the run's responses, by response and then from left
\* to right.
AllBlocks(run) ==
    Concat([k \in 1..Len(run.responses) |-> FileMatches(run.responses[k])])

\* C11: when a run has completed without an error, every file that a block of
\* its responses names holds the content of the last block that names it
\* (by response, then from left to right), and nothing of an earlier block or
\* of what the file held before.  Two spellings of a path that the
\* filesystem opens as one file name one file.  (Until another run starts.)
C11_LastWriteWins ==
    \A r \in Threads :
        (runs[r].pc = "done" /\ r = Len(runs)) =>
            LET blocks == AllBlocks(runs[r])
                place(b) == Location(ResolvedPath(blocks[b].path, project_path))
            IN  \A b \in 1..Len(blocks) :
                    LET last == Max({c \in 1..Len(blocks) : place(c) = place(b)})
                    IN  /\ IsFile(fs, place(b))
                        /\ ReadFile(fs, place(b)) = blocks[last].content

\* A run that completed on a project that had a.py: an earlier response has a
\* block for ./a.py, a later one a block for a.py with another content, and
\* the file holds the later content.
C11_Witness ==
    \E r \in Threads :
        /\ runs[r].pc = "done"
        /\ \E j, k \in 1..Len(runs[r].responses) :
               /\ j < k
               /\ runs[r].responses[j] = AliasReply
               /\ runs[r].responses[k] = OneFileReply
               /\ \A l \in (k + 1)..Len(runs[r].responses) :
                      FileMatches(runs[r].responses[l]) = <<>>
        /\ ~runs[r].is_new_project
        /\ ReadFile(fs, Join(Root, APy)) = <<"A">>

\* C12: applying one file block (path, content) a second time changes
\* nothing: the directories, the files and every file's content are what
\* they were after the first application, whatever the filesystem was at the
\* start.
C12_ApplyTwiceIsApplyOnce ==
    \A j, k \in 2..Len(call_out.value) : call_out.value[j] = call_out.value[k]

\* A block for sub/x.py applied twice to a project that has neither the
\* directory nor the file: the first application made both.
C12_Witness ==
    /\ Len(call_out.value) = 3
    /\ call_in.path = SubXPy
    /\ ~IsDir(call_out.value[1], Join(Root, <<"sub">>))
    /\ IsDir(call_out.value[3], Join(Root, <<"sub">>))
    /\ IsFile(call_out.value[2], Join(Root, SubXPy))
    /\ ReadFile(call_out.value[3], Join(Root, SubXPy)) = call_in.content

\* C13: once the response is processed, the file of its well-formed block
\* exists and reading it gives the text between the path line and the closing
\* fence, nothing trimmed or added: also for an empty content and for a
\* content with blank lines.
C13_RoundTrip ==
    call_out.done =>
        /\ IsFile(fs, Join(Root, Strip(call_in.path)))
        /\ ReadFile(fs, Join(Root, Strip(call_in.path))) = call_in.content

\* The response is a block for a.py with an empty content and nothing after
\* it: nothing is extracted, and there is no file.
C13_Witness ==
    /\ call_out.done
    /\ call_in = [path |-> APy, content |-> <<>>, tail |-> <<>>]
    /\ call_out.value = <<>>
    /\ ~IsFile(fs, Join(Root, APy))

\* C14: against an endpoint that answers 500 to every request, whatever the
\* body, no exception is raised in the run, every response is the failure
\* text, and the run writes no file.
C14_AllFailWritesNothing ==
    \A r \in Threads :
        /\ runs[r].raised_at = ""
        /\ \A k \in 1..Len(runs[r].responses) :
               IsAt(runs[r].responses[k], 1, FailureMarker)
        /\ runs[r].written = <<>>

\* Every request of the run got the status 500, the run is complete, and it
\* wrote a.py from the body of an error.
C14_Witness ==
    \E r \in Threads :
        /\ runs[r].pc = "done"
        /\ \A k \in 1..Len(runs[r].calls) : runs[r].calls[k].outcome.status = 500
        /\ runs[r].written # <<>>
        /\ runs[r].is_new_project
        /\ IsFile(fs, Join(Root, APy))
        /\ ReadFile(fs, Join(Root, APy)) = <<"A">>

\* C15: against an endpoint that answers 500 to every request, a run that
\* has ended has put at least one event of the type error.
C15_AllFailPutsError ==
    \A r \in Threads :
        ~Executing(runs[r]) =>
            \E k \in 1..Len(runs[r].log) : runs[r].log[k].type = "error"

\* Every request of the run got the status 500 with the body "boom"; the run
\* has ended with "generation complete" and none of its events is an error.
C15_Witness ==
    \E r \in Threads :
        /\ runs[r].pc = "done"
        /\ Len(runs[r].calls) = 4
        /\ \A k \in 1..4 : runs[r].calls[k].outcome = Status(500, <<"boom">>)
        /\ \A k \in 1..Len(runs[r].log) : runs[r].log[k].type # "error"
        /\ HasEvent(runs[r], Event("status", MsgComplete))
        /\ HasEvent(runs[r], Event("status", MsgNoFiles))

\* The request of call k of the run has been sent.
Posted(run, k) ==
    k < Len(run.calls) \/ run.pc \notin {"gen_url", "gen_model"}

C20_NoMixedPair ==
    \A r \in Threads :
        \A k \in 1..Len(runs[r].calls) :
            Posted(runs[r], k) =>
                [api_url |-> runs[r].calls[k].api_url,
                 model_name |-> runs[r].calls[k].model_name] \in ui.pairs

\* One update only, from the default pair to another URL and another model:
\* a request was sent with the new URL and the old model.
C20_Witness ==
    \E r \in Threads :
        /\ InFlight(runs[r])
        /\ Len(runs[r].calls) = 1
        /\ ui.pairs = {DefaultPair, [api_url |-> "http://other:11434/api",
                                     model_name |-> "llama3"]}
        /\ runs[r].calls[1].api_url = "http://other:11434/api"
        /\ runs[r].calls[1].model_name = DefaultModel

\* The text has the marker of a file block somewhere.
HasMarker(t) == \E i \in 1..Len(t) : IsAt(t, i, MARK)

\* The text has a marker with a path line: at least one symbol that is not
\* a newline, then a newline.
HasMarkerWithPath(t) ==
    \E i \in 1..Len(t) :
        /\ IsAt(t, i, MARK)
        /\ \E j \in (i + Len(MARK) + 1)..Len(t) :
               /\ t[j] = NL
               /\ \A k \in (i + Len(MARK))..(j - 1) : t[k] # NL

\* What the primary strategy and the fallback strategy yield.
PrimaryPaths(t) ==
    LET found == MarkerPathsFrom(t, 1)
    IN  [i \in 1..Len(found) |-> Strip(found[i])]

FallbackPaths(t) == PathTokensFrom(StructureText(t), 1)

\* C17 as stated: a response without a marker yields no file (nothing is
\* written, no file event is put) and its planned files are those of the fallback; a response with
\* at least one marker never returns the paths of the fallback.
C17_MarkerNeverFallsBack ==
    call_out.done =>
        LET t == call_in.response
        IN  /\ ~HasMarker(t) =>
                   /\ call_out.value.files = <<>>
                   /\ fs = call_in.fs
                   /\ message_queue = <<>>
                   /\ call_out.value.planned = FallbackPaths(t)
            /\ HasMarker(t) => call_out.value.planned = PrimaryPaths(t)

\* C17: a response without a marker yields no file (nothing is written, no
\* file event is put) and
\* its planned files are those of the fallback; the fallback is used only
\* when the primary strategy yields nothing, so a response with a marker that
\* has a path line never returns the paths of the fallback, while a response
\* whose markers have no path line returns them.
C17_FallbackOnlyWhenPrimaryEmpty ==
    call_out.done =>
        LET t == call_in.response
        IN  /\ ~HasMarker(t) =>
                   /\ call_out.value.files = <<>>
                   /\ fs = call_in.fs
                   /\ message_queue = <<>>
                   /\ call_out.value.planned = FallbackPaths(t)
            /\ HasMarkerWithPath(t) =>
                   /\ PrimaryPaths(t) # <<>>
                   /\ call_out.value.planned = PrimaryPaths(t)
            /\ ~HasMarkerWithPath(t) =>
                   /\ PrimaryPaths(t) = <<>>
                   /\ call_out.value.planned = FallbackPaths(t)

\* A response without a marker and with a structure of two files: no file is
\* extracted or written, and the planned files are the two of the structure.
C17_Witness ==
    /\ call_out.done
    /\ ~HasMarker(call_in.response)
    /\ call_out.value.files = <<>>
    /\ fs = call_in.fs
    /\ message_queue = <<>>
    /\ call_out.value.planned = <<APy, <<"b", ".", "py">>>>

\* Run r has put its last event: generation complete, or the error event.
Started(r) == r <= Len(runs)

Terminal(r) ==
    /\ r <= Len(runs)
    /\ \E k \in 1..Len(runs[r].log) :
           \/ runs[r].log[k] = Event("status", MsgComplete)
           \/ runs[r].log[k].type = "error"

\* Every message put since the program started is still in the queue: the
\* consumer has taken none.
NothingDequeued ==
    /\ runs # <<>>
    /\ Len(message_queue) >= Len(runs[1].log) + 2
    /\ \A k \in 1..Len(runs[1].log) :
           message_queue[Len(message_queue) - Len(runs[1].log) + k]
               = runs[1].log[k]

\* C18: the thread of a run that has not ended always has a step it can take,
\* whatever the queue holds (no put waits), and every run that started ends
\* with its terminal event in the log, with nothing assumed of the consumer.
C18_ProducerNeverWaits ==
    /\ [](\A r \in 1..MaxRunsAlone :
              (Started(r) /\ Executing(runs[r])) => ENABLED RunStep(r))
    /\ \A r \in 1..MaxRunsAlone : Started(r) ~> Terminal(r)

\* A run that put generation complete while the consumer took no message:
\* every event of the run is in the queue behind the events of the two
\* requests of the user.
C18_Witness ==
    /\ NothingDequeued
    /\ runs[1].pc = "done"
    /\ Terminal(1)

\* The status event of response i of n, and where it is in the log of a run
\* (0 where it is not).
ProcessingEvent(i, n) == Event("status", MsgProcessing(i, n))
CompleteEvent == Event("status", MsgComplete)

Where(log, e) ==
    IF \E k \in 1..Len(log) : log[k] = e
    THEN Min({k \in 1..Len(log) : log[k] = e})
    ELSE 0

Times(log, e) == Cardinality({k \in 1..Len(log) : log[k] = e})

\* The events derived from one response: the file event of each block from
\* left to right, then the plan event of each plan note, then the status
\* event of a response without a file.
DerivedEvents(response) ==
    LET matches == FileMatches(response)
    IN  [k \in 1..Len(matches) |->
            Event("file",
                  MsgSaved(Relpath(ResolvedPath(matches[k].path, project_path),
                                   project_path)))]
        \o PlanEvents(PlanMatches(response))
        \o (IF matches = <<>> THEN <<Event("status", MsgNoFiles)>> ELSE <<>>)

\* In the log of a run that ended without an exception: one status event
\* (i/n) for each of the n responses, i increasing; after the status event
\* of response i and before the next one (before generation complete, for
\* the last response) the events derived from response i and nothing else.
OrderedByResponse(run) ==
    LET n == Len(run.responses)
        log == run.log
        at(i) == IF i <= n THEN Where(log, ProcessingEvent(i, n))
                 ELSE Where(log, CompleteEvent)
    IN  /\ Times(log, CompleteEvent) = 1
        /\ \A i \in 1..n :
               /\ Times(log, ProcessingEvent(i, n)) = 1
               /\ at(i) < at(i + 1)
               /\ SubSeq(log, at(i) + 1, at(i + 1) - 1)
                      = DerivedEvents(run.responses[i])
        /\ \A k \in 1..(at(1) - 1) : log[k].type # "file"

\* C19 as stated: in a run that raises no exception the status events (i/n)
\* come with i increasing, the events of response i between the status event
\* of i and the next, files in block order before plans, and generation
\* complete comes after every file event and every plan event of the run.
C19_CompleteAfterEveryPlan ==
    \A r \in Threads :
        runs[r].pc = "done" =>
            /\ OrderedByResponse(runs[r])
            /\ \A k \in 1..Len(runs[r].log) :
                   runs[r].log[k].type \in {"file", "plan"} =>
                       k < Where(runs[r].log, CompleteEvent)

\* C19: in a run that raises no exception the status events (i/n) come with
\* i increasing, the events of response i between the status event of i and
\* the next, files in block order before plans; generation complete comes
\* after every file event and every plan event derived from a response, and
\* one plan event, all tasks done, comes after it and ends the log.
C19_EventsInResponseOrder ==
    \A r \in Threads :
        runs[r].pc = "done" =>
            /\ OrderedByResponse(runs[r])
            /\ Where(runs[r].log, CompleteEvent) = Len(runs[r].log) - 1
            /\ runs[r].log[Len(runs[r].log)] = Event("plan", MsgAllDone)

\* A run that ended without an exception on three responses, one of them
\* with two file blocks and a plan note.
C19_Witness ==
    \E r \in Threads :
        /\ runs[r].pc = "done"
        /\ Len(runs[r].responses) = 3
        /\ \E i \in 1..3 : runs[r].responses[i] = TwoFilesReply

====
